---------------------------- MODULE Spec2Model ----------------------------
(***************************************************************************)
(* Model of the Arabizi transliteration engine, class ArabicTransliterator *)
(* of background/transliteration-rules.js, and of the variant of the same  *)
(* class with the extended rule table.                                     *)
(*                                                                         *)
(* A JavaScript string is a sequence of one-character strings.  A Latin    *)
(* input character is the one-character string itself ("s", "H", "3",      *)
(* " ").  An Arabic output letter is written by its name in capitals:      *)
(*   SHEEN U+0634  THAA U+062B  DHAAL U+0630  AIN U+0639   HHA U+062D      *)
(*   KHA U+062E    HAMZA U+0621 QAF U+0642    TAH U+0637   GHAIN U+063A    *)
(*   SAD U+0635    DAD U+0636   ZHA U+0638    ALIF U+0627  BA U+0628       *)
(*   TA U+062A     TA_MARBUTA U+0629          JEEM U+062C  DAL U+062F      *)
(*   RA U+0631     ZAY U+0632   SEEN U+0633   FA U+0641    KAF U+0643      *)
(*   LAM U+0644    MEEM U+0645  NOON U+0646   HA U+0647    WAW U+0648      *)
(*   YA U+064A     WAW_HAMZA U+0624           YA_HAMZA U+0626              *)
(*   ALIF_HAMZA U+0623                                                     *)
(* Every such name has at least two characters, so no output letter is     *)
(* equal to an input character.  A JavaScript value that is not a string   *)
(* (null, undefined) is the one-element sequence of its name, which is no  *)
(* string of the model: <<"null">>, <<"undefined">>.                       *)
(***************************************************************************)
EXTENDS Integers, Sequences, FiniteSets, TLC

VARIABLES engine, isEnabled, keyboardLayout, currentText, cursorPosition,
          op, arg, ret, results, bg, cs, db

\* bg, cs and db are the state of the background script, of a content script
\* and of a debounced function; their fields are introduced with their
\* state machines
vars == <<engine, isEnabled, keyboardLayout, currentText, cursorPosition,
          op, arg, ret, results, bg, cs, db>>

\* the state of the host scripts around the engine
hostVars == <<bg, cs, db>>

---------------------------------------------------------------------------
(* Bounds of the model *)

\* longest generated text over Alphabet
MaxLen == 3

\* how far outside [0, length] a host cursor may lie
MaxOver == 1

\* toggle events (popup messages and icon clicks) in one run of the
\* background script
MaxToggles == 2

\* open tabs
NumTabs == 2

\* keystrokes of the user in one run of a content script
MaxTyped == 2

\* calls of a debounced function in one run, and the time the run lasts
MaxCalls == 3
MaxTime == 6

---------------------------------------------------------------------------
(* Rule tables *)

R(p, f, a) == [pattern |-> p, flags |-> f, arabic |-> a]

\* the digraph tier with the pairs kh and gh of the README guide added
DigraphRules_WithKhGh ==
  << R(<<"s","h">>, "gi", "SHEEN"), R(<<"t","h">>, "gi", "THAA"),
     R(<<"d","h">>, "gi", "DHAAL"), R(<<"c","h">>, "gi", "SHEEN"),
     R(<<"k","h">>, "gi", "KHA"),   R(<<"g","h">>, "gi", "GHAIN") >>

\* 1. multi-character patterns (digraphs)
DigraphRules ==
  << R(<<"s","h">>, "gi", "SHEEN"), R(<<"t","h">>, "gi", "THAA"),
     R(<<"d","h">>, "gi", "DHAAL"), R(<<"c","h">>, "gi", "SHEEN") >>

\* 2. numerical substitutions
NumeralRules ==
  << R(<<"3">>, "g", "AIN"),   R(<<"7">>, "g", "HHA"),
     R(<<"5">>, "g", "KHA"),   R(<<"2">>, "g", "HAMZA"),
     R(<<"9">>, "g", "QAF"),   R(<<"6">>, "g", "TAH"),
     R(<<"8">>, "g", "GHAIN") >>

\* 3. emphatic consonants (capital letters)
EmphaticRules ==
  << R(<<"S">>, "g", "SAD"),   R(<<"D">>, "g", "DAD"),
     R(<<"Z">>, "g", "ZHA") >>

\* 4. standard single letters
BaseRules ==
  << R(<<"a">>, "gi", "ALIF"), R(<<"b">>, "gi", "BA"),
     R(<<"t">>, "gi", "TA"),   R(<<"j">>, "gi", "JEEM"),
     R(<<"d">>, "gi", "DAL"),  R(<<"r">>, "gi", "RA"),
     R(<<"z">>, "gi", "ZAY"),  R(<<"s">>, "gi", "SEEN"),
     R(<<"f">>, "gi", "FA"),   R(<<"k">>, "gi", "KAF"),
     R(<<"l">>, "gi", "LAM"),  R(<<"m">>, "gi", "MEEM"),
     R(<<"n">>, "gi", "NOON"), R(<<"h">>, "gi", "HA"),
     R(<<"w">>, "gi", "WAW"),  R(<<"y">>, "gi", "YA"),
     R(<<"p">>, "gi", "BA") >>

\* 5. vowel mappings
VowelRules ==
  << R(<<"e">>, "gi", "YA"),   R(<<"i">>, "gi", "YA"),
     R(<<"o">>, "gi", "WAW"),  R(<<"u">>, "gi", "WAW") >>

\* the emphatic tier ahead of the digraph tier
Rules_EmphaticFirst ==
  EmphaticRules \o DigraphRules \o NumeralRules \o BaseRules \o VowelRules

\* this.rules of background/transliteration-rules.js, in the order of the source
Rules ==
  DigraphRules \o NumeralRules \o EmphaticRules \o BaseRules \o VowelRules

\* tiers 1, 2 and 5 of the variant engine: the same rules as above
VariantDigraphRules ==
  << R(<<"s","h">>, "gi", "SHEEN"), R(<<"t","h">>, "gi", "THAA"),
     R(<<"d","h">>, "gi", "DHAAL"), R(<<"c","h">>, "gi", "SHEEN") >>

VariantNumeralRules ==
  << R(<<"3">>, "g", "AIN"),   R(<<"7">>, "g", "HHA"),
     R(<<"5">>, "g", "KHA"),   R(<<"2">>, "g", "HAMZA"),
     R(<<"9">>, "g", "QAF"),   R(<<"6">>, "g", "TAH"),
     R(<<"8">>, "g", "GHAIN") >>

\* the emphatic tier of the variant engine without its rule for T
VariantEmphaticRules_WithoutT ==
  << R(<<"S">>, "g", "SAD"),   R(<<"D">>, "g", "DAD"),
     R(<<"Z">>, "g", "ZHA"),
     R(<<"O">>, "g", "WAW_HAMZA"), R(<<"Y">>, "g", "YA_HAMZA") >>

\* 3. emphatic consonants of the variant engine: T, O and Y added
VariantEmphaticRules ==
  << R(<<"S">>, "g", "SAD"),   R(<<"D">>, "g", "DAD"),
     R(<<"Z">>, "g", "ZHA"),   R(<<"T">>, "g", "TA"),
     R(<<"O">>, "g", "WAW_HAMZA"), R(<<"Y">>, "g", "YA_HAMZA") >>

\* 4. standard single letters of the variant engine: t is case-sensitive
VariantBaseRules ==
  << R(<<"a">>, "gi", "ALIF"), R(<<"b">>, "gi", "BA"),
     R(<<"t">>, "g", "TA_MARBUTA"), R(<<"j">>, "gi", "JEEM"),
     R(<<"d">>, "gi", "DAL"),  R(<<"r">>, "gi", "RA"),
     R(<<"z">>, "gi", "ZAY"),  R(<<"s">>, "gi", "SEEN"),
     R(<<"f">>, "gi", "FA"),   R(<<"k">>, "gi", "KAF"),
     R(<<"l">>, "gi", "LAM"),  R(<<"m">>, "gi", "MEEM"),
     R(<<"n">>, "gi", "NOON"), R(<<"h">>, "gi", "HA"),
     R(<<"w">>, "gi", "WAW"),  R(<<"y">>, "gi", "YA"),
     R(<<"p">>, "gi", "BA") >>

VariantVowelRules ==
  << R(<<"e">>, "gi", "YA"),   R(<<"i">>, "gi", "YA"),
     R(<<"o">>, "gi", "WAW"),  R(<<"u">>, "gi", "WAW") >>

\* this.rules of the variant engine
VariantRules ==
  VariantDigraphRules \o VariantNumeralRules \o VariantEmphaticRules
    \o VariantBaseRules \o VariantVowelRules

\* the two engine sources of the repository
Engines == {"background", "variant"}

RulesOf(e) == IF e = "variant" THEN VariantRules ELSE Rules

\* this.separators
separators ==
  { " ", ".", ",", "!", "?", ";", ":", "(", ")", "[", "]", "{", "}", "-",
    "_", "+", "=", "*", "/", "\\", "|", "&", "%", "$", "#", "@", "^", "~",
    "`", "<", ">", "\"", "'" }

---------------------------------------------------------------------------
(* JavaScript string and regular-expression primitives *)

\* case folding of the regular expression flag i, on the Latin letters
ToLower ==
  [ A |-> "a", B |-> "b", C |-> "c", D |-> "d", E |-> "e", F |-> "f",
    G |-> "g", H |-> "h", I |-> "i", J |-> "j", K |-> "k", L |-> "l",
    M |-> "m", N |-> "n", O |-> "o", P |-> "p", Q |-> "q", R |-> "r",
    S |-> "s", T |-> "t", U |-> "u", V |-> "v", W |-> "w", X |-> "x",
    Y |-> "y", Z |-> "z" ]

Canonicalize(c) == IF c \in DOMAIN ToLower THEN ToLower[c] ELSE c

\* every pattern compared case-sensitively
CharMatches_CaseSensitive(p, c, flags) == p = c

\* every pattern compared case-insensitively
CharMatches_IgnoreCase(p, c, flags) == Canonicalize(p) = Canonicalize(c)

\* one pattern character against one input character
CharMatches(p, c, flags) ==
  IF flags = "gi" THEN Canonicalize(p) = Canonicalize(c) ELSE p = c

\* the pattern matches str at 1-based position i
MatchesAt(str, i, rule) ==
  /\ i + Len(rule.pattern) - 1 <= Len(str)
  /\ \A k \in 1..Len(rule.pattern) :
        CharMatches(rule.pattern[k], str[i + k - 1], rule.flags)

RECURSIVE ReplaceFrom(_, _, _)
\* str.replace(rule.pattern, rule.arabic) with the g flag: leftmost matches,
\* not overlapping, scanning from position i
ReplaceFrom(str, i, rule) ==
  IF i > Len(str) THEN <<>>
  ELSE IF MatchesAt(str, i, rule)
       THEN <<rule.arabic>> \o ReplaceFrom(str, i + Len(rule.pattern), rule)
       ELSE <<str[i]>> \o ReplaceFrom(str, i + 1, rule)

\* replace without the g flag: only the first match is replaced
Replace_FirstOnly(str, rule) ==
  IF \E i \in 1..Len(str) : MatchesAt(str, i, rule)
  THEN LET i == CHOOSE j \in 1..Len(str) :
                  /\ MatchesAt(str, j, rule)
                  /\ \A m \in 1..(j - 1) : ~MatchesAt(str, m, rule)
       IN  SubSeq(str, 1, i - 1) \o <<rule.arabic>>
             \o SubSeq(str, i + Len(rule.pattern), Len(str))
  ELSE str

\* str.replace(rule.pattern, rule.arabic); a one-character pattern replaces
\* every matching character in place
Replace(str, rule) ==
  IF Len(rule.pattern) = 1
  THEN [i \in 1..Len(str) |->
          IF CharMatches(rule.pattern[1], str[i], rule.flags)
          THEN rule.arabic ELSE str[i]]
  ELSE ReplaceFrom(str, 1, rule)

\* str[i] with a 0-based index: undefined outside the string
CharAt(str, i) == IF i >= 0 /\ i < Len(str) THEN str[i + 1] ELSE "undefined"

\* slice semantics: a negative index counts from the end
Clamp_Slice(n, len) ==
  IF n < 0 THEN (IF len + n < 0 THEN 0 ELSE len + n)
  ELSE IF n > len THEN len ELSE n

Clamp(n, len) == IF n < 0 THEN 0 ELSE IF n > len THEN len ELSE n

\* str.substring(start, end): both clamped to [0, length], swapped if start > end
Substring(str, start, end) ==
  LET a == Clamp(start, Len(str))
      b == Clamp(end, Len(str))
      lo == IF a <= b THEN a ELSE b
      hi == IF a <= b THEN b ELSE a
  IN  SubSeq(str, lo + 1, hi)

\* str.substring(start)
SubstringFrom(str, start) == Substring(str, start, Len(str))

---------------------------------------------------------------------------
(* The engine *)

\* the absent values a caller can pass in place of a string
Null == <<"null">>

Undefined == <<"undefined">>

AbsentValues == {Null, Undefined}

IsString(v) == v \notin AbsentValues

\* !input
Falsy(input) == input = <<>> \/ input \in AbsentValues

RECURSIVE ApplyRules(_, _, _)
\* for (const rule of this.rules) result = result.replace(...); the loop is
\* cut short on an empty result, in which no later rule finds a match
ApplyRules(rules, k, result) ==
  IF k > Len(rules) \/ result = <<>> THEN result
  ELSE ApplyRules(rules, k + 1, Replace(result, rules[k]))

\* a falsy input is handed back as it is
transliterate_ReturnsInput(rules, input) ==
  IF Falsy(input) THEN input ELSE ApplyRules(rules, 1, input)

\* the loop stops one rule short of the end of the table
transliterate_SkipLastRule(rules, input) ==
  IF Falsy(input) THEN <<>>
  ELSE ApplyRules(SubSeq(rules, 1, Len(rules) - 1), 1, input)

transliterate(rules, input) ==
  IF Falsy(input) THEN <<>> ELSE ApplyRules(rules, 1, input)

RECURSIVE LeftScan(_, _)
\* for (let i = cursorPosition - 1; i >= 0; i--): last separator left of cursor
LeftScan(text, i) ==
  IF i < 0 THEN -1
  ELSE IF CharAt(text, i) \in separators THEN i
  ELSE LeftScan(text, i - 1)

\* the scan to the left starts at the cursor itself
leftBoundary_FromCursor(text, cursor) == LeftScan(text, cursor)

leftBoundary(text, cursor) == LeftScan(text, cursor - 1)

RECURSIVE RightScan(_, _)
\* for (let i = cursorPosition; i < currentText.length; i++)
RightScan(text, i) ==
  IF i >= Len(text) THEN Len(text)
  ELSE IF CharAt(text, i) \in separators THEN i
  ELSE RightScan(text, i + 1)

\* the active segment ends at the cursor
rightBoundary_AtCursor(text, cursor) == Clamp(cursor, Len(text))

rightBoundary(text, cursor) == RightScan(text, cursor)

\* the committed prefix stops before its boundary separator
committedPrefix_WithoutSeparator(text, cursor) ==
  Substring(text, 0, leftBoundary(text, cursor))

committedPrefix(text, cursor) == Substring(text, 0, leftBoundary(text, cursor) + 1)

activeSegment(text, cursor) ==
  Substring(text, leftBoundary(text, cursor) + 1, rightBoundary(text, cursor))

suffix(text, cursor) == SubstringFrom(text, rightBoundary(text, cursor))

newText(rules, text, cursor) ==
  transliterate(rules, committedPrefix(text, cursor))
    \o transliterate(rules, activeSegment(text, cursor))
    \o transliterate(rules, suffix(text, cursor))

\* the text up to the cursor, not transliterated
previewUpToCursor_Raw(rules, text, cursor) == Substring(text, 0, cursor)

\* only the active segment up to the cursor
previewUpToCursor_ActiveOnly(rules, text, cursor) ==
  transliterate(rules, Substring(text, leftBoundary(text, cursor) + 1, cursor))

previewUpToCursor(rules, text, cursor) ==
  transliterate(rules, Substring(text, 0, cursor))

\* currentText[i] and currentText.length throw on null and undefined: the
\* call ends with an exception in place of a result
TypeError == [exception |-> "TypeError"]

\* the enabled flag is not consulted
transliterateRealTime_NoGuard(rules, enabled, text, cursor) ==
  IF ~IsString(text) THEN TypeError
  ELSE [text |-> newText(rules, text, cursor),
        newCursorPosition |-> Len(previewUpToCursor(rules, text, cursor))]

transliterateRealTime(rules, enabled, text, cursor) ==
  IF ~enabled
  THEN [text |-> text, newCursorPosition |-> cursor]
  ELSE IF ~IsString(text) THEN TypeError
  ELSE [text |-> newText(rules, text, cursor),
        newCursorPosition |-> Len(previewUpToCursor(rules, text, cursor))]

---------------------------------------------------------------------------
(* Inputs the host supplies *)

\* characters of the generated texts: the letters of sh and Sh, and a separator
Alphabet == {"s", "h", "S", " "}

\* every character some rule or claim speaks about
InputChars ==
  { "a","b","c","d","e","f","g","h","i","j","k","l","m","n","o","p","q",
    "r","s","t","u","v","w","x","y","z",
    "A","B","C","D","E","F","G","H","I","J","K","L","M","N","O","P","Q",
    "R","S","T","U","V","W","X","Y","Z",
    "0","1","2","3","4","5","6","7","8","9", " ", ".", "-", "?" }

SeqsUpTo(S, n) == UNION { [1..k -> S] : k \in 0..n }

\* literal inputs of the documentation and of runTests
GoldenTexts ==
  { <<"3","a","r","a","b","i","y","y","a">>,
    <<"S","h","a","m">>,
    <<"s","h","a","7","a","l">>,
    <<"m","a","r","H","a","b","a">>,
    <<"a","h","l","a","n">>,
    <<"a","n","a"," ","r","a","y","e","H">>,
    <<"m","e","s","h"," ","k","i","d","a">>,
    <<"c","h","o","u"," ","e","s","m","a","k","?">>,
    <<"A","n","a"," ","b","7","i","b","b","a","k",".">>,
    <<"T","h","a","b","t">>,
    <<"k","i","f","a","k","?">> }

ProbeTexts ==
  { <<c>> : c \in InputChars }
    \cup { <<c, h>> : c \in InputChars, h \in {"h", "H"} }
    \cup { <<c, h, d>> : c \in {"S","D","Z","s","d","z"}, h \in {"h", "H", "a"},
                         d \in {"a", " "} }

\* texts that already hold Arabic letters
ArabicTexts ==
  { <<"SHEEN">>, <<"SHEEN", "a">>, <<"s", "ALIF", "h">>,
    <<"MEEM", "RA", "HHA", "BA", "ALIF">> }

Texts ==
  SeqsUpTo(Alphabet, MaxLen) \cup ProbeTexts \cup GoldenTexts \cup ArabicTexts
    \cup AbsentValues

Cursors(text) == (0 - MaxOver) .. (Len(text) + MaxOver)

InRange(text, cursor) == IsString(text) /\ cursor >= 0 /\ cursor <= Len(text)

---------------------------------------------------------------------------
(* The host scripts before they run *)

Tabs == 1..NumTabs

\* updateBadge(isEnabled): the badge text
BadgeText(flag) == IF flag THEN "ON" ELSE "OFF"

\* an asynchronous operation the background script waits for: a storage read
\* or write, or a chrome.tabs.query; id is the number of the toggle event
\* that issued it (0 for initialization)
AsyncOp(kind, value, from, tab, id) ==
  [kind |-> kind, value |-> value, from |-> from, tab |-> tab, id |-> id]

\* background.js before its top-level code has run: no badge, nothing
\* stored, nothing pending; every content script starts disabled
BgAtRest ==
  [ badge |-> "", stored |-> <<>>, storageOps |-> <<>>, queries |-> <<>>,
    inbox |-> [t \in Tabs |-> <<>>], tabEnabled |-> [t \in Tabs |-> FALSE],
    toggles |-> 0, sentTo |-> [k \in 1..MaxToggles |-> {}] ]

\* a content script before it is injected: an empty field, the two flags
\* false, no request on its way, no update of the field going on
CsAtRest ==
  [ script |-> "none", value |-> <<>>, selectionStart |-> 0,
    isTransliteratorEnabled |-> FALSE, isUpdatingInput |-> FALSE,
    outstanding |-> <<>>, pc |-> "idle", pendingText |-> <<>>,
    pendingSent |-> <<>>, writeSent |-> <<>>, writeOver |-> <<>>,
    typed |-> 0, threw |-> FALSE ]

\* a debounced function before its first call: timeout is undefined (0, the
\* id of no timer), no timer is set, nothing has been called or run
DbAtRest ==
  [ timeout |-> 0, timers |-> {}, now |-> 0, calls |-> <<>>, runs |-> <<>> ]

HostAtRest == bg = BgAtRest /\ cs = CsAtRest /\ db = DbAtRest

\* the engine as the constructor leaves it, with no call made
EngineAtRest ==
  /\ engine = "background"
  /\ isEnabled = TRUE
  /\ keyboardLayout = "AZERTY"
  /\ currentText = <<>>
  /\ cursorPosition = 0
  /\ op = "constructor"
  /\ arg = "none"
  /\ ret = "undefined"
  /\ results = {}

---------------------------------------------------------------------------
(* State machine: one engine instance and the calls of its host *)

\* constructor: this.isEnabled = true, this.keyboardLayout = 'AZERTY'; the
\* host holds a text and a cursor
Init ==
  /\ engine \in Engines
  /\ isEnabled = TRUE
  /\ keyboardLayout = "AZERTY"
  /\ currentText \in Texts
  /\ cursorPosition \in Cursors(currentText)
  /\ op = "constructor"
  /\ arg = "none"
  /\ ret = "undefined"
  /\ results = {}
  /\ HostAtRest

\* the enabled flag is flipped, whatever the argument is
setEnabled_Toggle(enabled) ==
  /\ isEnabled' = ~isEnabled
  /\ op' = "setEnabled"
  /\ arg' = enabled
  /\ ret' = "undefined"
  /\ UNCHANGED <<engine, keyboardLayout, currentText, cursorPosition, results,
                 hostVars>>

\* setEnabled(enabled)
setEnabled(enabled) ==
  /\ isEnabled' = enabled
  /\ op' = "setEnabled"
  /\ arg' = enabled
  /\ ret' = "undefined"
  /\ UNCHANGED <<engine, keyboardLayout, currentText, cursorPosition, results,
                 hostVars>>

\* isTransliteratorEnabled()
isTransliteratorEnabled ==
  /\ op' = "isTransliteratorEnabled"
  /\ arg' = "none"
  /\ ret' = isEnabled
  /\ UNCHANGED <<engine, isEnabled, keyboardLayout, currentText,
                 cursorPosition, results, hostVars>>

\* the host's request for the full-text transliteration of currentText:
\* transliterator.transliterate(message.text)
Transliterate ==
  /\ op' = "transliterate"
  /\ arg' = "none"
  /\ ret' = transliterate(RulesOf(engine), currentText)
  /\ UNCHANGED <<engine, isEnabled, keyboardLayout, currentText,
                 cursorPosition, results, hostVars>>

\* transliterateRealTime(currentText, cursorPosition)
TransliterateRealTime ==
  /\ op' = "transliterateRealTime"
  /\ arg' = "none"
  /\ ret' = transliterateRealTime(RulesOf(engine), isEnabled,
                                  currentText, cursorPosition)
  /\ UNCHANGED <<engine, isEnabled, keyboardLayout, currentText,
                 cursorPosition, results, hostVars>>

Next ==
  \/ \E enabled \in BOOLEAN : setEnabled(enabled)
  \/ isTransliteratorEnabled
  \/ Transliterate
  \/ TransliterateRealTime

Spec == Init /\ [][Next]_vars

---------------------------------------------------------------------------
(* State machine of the two transliteration functions alone, on the engine *)
(* as it is constructed                                                    *)

FunctionNext ==
  \/ Transliterate
  \/ TransliterateRealTime

FunctionSpec == Init /\ [][FunctionNext]_vars

---------------------------------------------------------------------------
(* State machine of the whole public interface of the engine, with a record *)
(* of what transliterate has returned under which value of the flag         *)

Layouts == {"AZERTY", "QWERTY"}

\* the texts of the interface runs
EngineTexts ==
  SeqsUpTo(Alphabet, MaxLen - 2) \cup AbsentValues
    \cup { <<"S", "h", "a", "m">>, <<"s", "h", " ">>, <<"g", "h">> }

EngineInit ==
  /\ engine \in Engines
  /\ isEnabled = TRUE
  /\ keyboardLayout = "AZERTY"
  /\ currentText \in EngineTexts
  /\ cursorPosition \in Cursors(currentText)
  /\ op = "constructor"
  /\ arg = "none"
  /\ ret = "undefined"
  /\ results = {}
  /\ HostAtRest

\* setKeyboardLayout(layout)
setKeyboardLayout(layout) ==
  /\ keyboardLayout' = layout
  /\ op' = "setKeyboardLayout"
  /\ arg' = layout
  /\ ret' = "undefined"
  /\ UNCHANGED <<engine, isEnabled, currentText, cursorPosition, results,
                 hostVars>>

\* transliterate returns its input while the engine is disabled
TransliterateRecorded_Gated ==
  /\ op' = "transliterate"
  /\ arg' = "none"
  /\ ret' = IF isEnabled THEN transliterate(RulesOf(engine), currentText)
            ELSE currentText
  /\ results' = results \cup {[flag |-> isEnabled, output |-> ret']}
  /\ UNCHANGED <<engine, isEnabled, keyboardLayout, currentText,
                 cursorPosition, hostVars>>

\* transliterate(currentText); the value of the flag during the call and the
\* value returned are recorded
TransliterateRecorded ==
  /\ op' = "transliterate"
  /\ arg' = "none"
  /\ ret' = transliterate(RulesOf(engine), currentText)
  /\ results' = results \cup {[flag |-> isEnabled, output |-> ret']}
  /\ UNCHANGED <<engine, isEnabled, keyboardLayout, currentText,
                 cursorPosition, hostVars>>

EngineNext ==
  \/ \E enabled \in BOOLEAN : setEnabled(enabled)
  \/ \E layout \in Layouts : setKeyboardLayout(layout)
  \/ isTransliteratorEnabled
  \/ TransliterateRecorded
  \/ TransliterateRealTime

EngineSpec == EngineInit /\ [][EngineNext]_vars

---------------------------------------------------------------------------
(* State machine of background.js: the engine's flag, the badge, the stored *)
(* flag, the storage operations and tab queries it waits for, and the       *)
(* state updates on their way to the content scripts of the open tabs.      *)
(* Storage operations complete in the order they were issued.               *)

StoredValues == { <<>>, <<TRUE>>, <<FALSE>> }

\* top-level code: the engine is constructed and initializeTransliteratorState
\* is called, which issues chrome.storage.local.get and waits for it
BgInit ==
  /\ EngineAtRest
  /\ \E s \in StoredValues :
       bg = [BgAtRest EXCEPT
               !.stored = s,
               !.storageOps = << AsyncOp("get", TRUE, "init", 0, 0) >>]
  /\ cs = CsAtRest
  /\ db = DbAtRest

\* the engine and the other scripts are left alone by the background steps
BgFrame ==
  UNCHANGED <<engine, keyboardLayout, currentText, cursorPosition, op, arg,
              ret, results, cs, db>>

\* the toggle handler sets the flag but leaves the badge for later
onToggleMessage_NoBadge ==
  /\ bg.toggles < MaxToggles
  /\ isEnabled' = ~isEnabled
  /\ bg' = [bg EXCEPT
              !.toggles = @ + 1,
              !.storageOps = Append(@, AsyncOp("set", ~isEnabled, "message",
                                               0, bg.toggles + 1))]
  /\ BgFrame

\* TOGGLE_TRANSLITERATOR message, up to the await: the flag is read, flipped
\* and written, the badge is set, chrome.storage.local.set is issued
onToggleMessage ==
  /\ bg.toggles < MaxToggles
  /\ isEnabled' = ~isEnabled
  /\ bg' = [bg EXCEPT
              !.toggles = @ + 1,
              !.badge = BadgeText(~isEnabled),
              !.storageOps = Append(@, AsyncOp("set", ~isEnabled, "message",
                                               0, bg.toggles + 1))]
  /\ BgFrame

\* chrome.action.onClicked on tab t, up to the await
onIconClicked(t) ==
  /\ bg.toggles < MaxToggles
  /\ isEnabled' = ~isEnabled
  /\ bg' = [bg EXCEPT
              !.toggles = @ + 1,
              !.badge = BadgeText(~isEnabled),
              !.storageOps = Append(@, AsyncOp("set", ~isEnabled, "icon",
                                               t, bg.toggles + 1))]
  /\ BgFrame

\* initializeTransliteratorState after its await: the stored flag, or true
\* if nothing is stored, goes to the engine and to the badge, and
\* chrome.tabs.query is issued
initAfterGet ==
  /\ bg.storageOps # <<>>
  /\ Head(bg.storageOps).kind = "get"
  /\ LET value == IF bg.stored = <<>> THEN TRUE ELSE bg.stored[1]
     IN  /\ isEnabled' = value
         /\ bg' = [bg EXCEPT
                     !.storageOps = Tail(@),
                     !.badge = BadgeText(value),
                     !.queries = Append(@, AsyncOp("query", value, "init",
                                                   0, 0))]
  /\ BgFrame

\* the TOGGLE_TRANSLITERATOR handler after its await: the write is in
\* storage, chrome.tabs.query is issued and the popup is answered
toggleAfterSet ==
  /\ bg.storageOps # <<>>
  /\ Head(bg.storageOps).kind = "set"
  /\ Head(bg.storageOps).from = "message"
  /\ LET o == Head(bg.storageOps)
     IN  bg' = [bg EXCEPT
                  !.storageOps = Tail(@),
                  !.stored = << o.value >>,
                  !.queries = Append(@, AsyncOp("query", o.value, "message",
                                                0, o.id))]
  /\ UNCHANGED isEnabled
  /\ BgFrame

\* the onClicked handler after its await: the write is in storage and the
\* update is sent to the clicked tab
iconAfterSet ==
  /\ bg.storageOps # <<>>
  /\ Head(bg.storageOps).kind = "set"
  /\ Head(bg.storageOps).from = "icon"
  /\ LET o == Head(bg.storageOps)
     IN  bg' = [bg EXCEPT
                  !.storageOps = Tail(@),
                  !.stored = << o.value >>,
                  !.inbox[o.tab] = Append(@, o.value),
                  !.sentTo[o.id] = @ \cup {o.tab}]
  /\ UNCHANGED isEnabled
  /\ BgFrame

\* callback of chrome.tabs.query({}): TRANSLITERATOR_STATE_UPDATE is sent to
\* every tab
tabsQueryCallback ==
  /\ bg.queries # <<>>
  /\ LET q == Head(bg.queries)
     IN  bg' = [bg EXCEPT
                  !.queries = Tail(@),
                  !.inbox = [t \in Tabs |-> Append(bg.inbox[t], q.value)],
                  !.sentTo = IF q.id = 0 THEN @
                             ELSE [@ EXCEPT ![q.id] = Tabs]]
  /\ UNCHANGED isEnabled
  /\ BgFrame

\* the content script of tab t receives TRANSLITERATOR_STATE_UPDATE
onStateUpdate(t) ==
  /\ bg.inbox[t] # <<>>
  /\ bg' = [bg EXCEPT
              !.inbox[t] = Tail(@),
              !.tabEnabled[t] = Head(bg.inbox[t])]
  /\ UNCHANGED isEnabled
  /\ BgFrame

BgNext ==
  \/ onToggleMessage
  \/ \E t \in Tabs : onIconClicked(t)
  \/ initAfterGet
  \/ toggleAfterSet
  \/ iconAfterSet
  \/ tabsQueryCallback
  \/ \E t \in Tabs : onStateUpdate(t)

BackgroundSpec == BgInit /\ [][BgNext]_vars

---------------------------------------------------------------------------
(* State machine of a content script on one input field.  script says which *)
(* content script of the repository runs: "realtime" sends                  *)
(* TRANSLITERATE_REAL_TIME and writes the response in its callback,         *)
(* "fulltext" sends 'transliterate' and writes with updateElementText.      *)
(* pc is the position inside updateElementText; writeSent and writeOver     *)
(* record, for the last write of a response into the field, the text that   *)
(* was sent in its request and the text the field held before the write.    *)

Scripts == {"realtime", "fulltext"}

TypedChars == {"s", "h"}

Min(a, b) == IF a <= b THEN a ELSE b

CsInit ==
  /\ EngineAtRest
  /\ bg = BgAtRest
  /\ db = DbAtRest
  /\ \E sc \in Scripts : cs = [CsAtRest EXCEPT !.script = sc]

CsFrame ==
  UNCHANGED <<engine, isEnabled, keyboardLayout, currentText, cursorPosition,
              op, arg, ret, results, bg, db>>

\* the request that an input event on the field sends, if the handler lets
\* it through: handleInputEvent, the input listener and processElement all
\* return early while the script is disabled or isUpdatingInput is set
RequestsAfterInput(c, text, cursor) ==
  IF c.isTransliteratorEnabled /\ ~c.isUpdatingInput /\ text # <<>>
  THEN Append(c.outstanding, [text |-> text, cursor |-> cursor])
  ELSE c.outstanding

\* the user types one character at the end of the field; the input event is
\* handled
userTypes(ch) ==
  /\ cs.pc = "idle"
  /\ cs.typed < MaxTyped
  /\ LET text == cs.value \o <<ch>>
     IN  cs' = [cs EXCEPT
                  !.typed = @ + 1,
                  !.value = text,
                  !.selectionStart = Len(text),
                  !.outstanding = RequestsAfterInput(cs, text, Len(text))]
  /\ CsFrame

\* TRANSLITERATOR_STATE_UPDATE / 'toggle' message
onToggle(enabled) ==
  /\ cs.pc = "idle"
  /\ cs' = [cs EXCEPT !.isTransliteratorEnabled = enabled]
  /\ CsFrame

\* callback of requestTransliteration: the response is written unless the
\* field already holds the transliterated text
realTimeResponse ==
  /\ cs.script = "realtime"
  /\ cs.pc = "idle"
  /\ cs.outstanding # <<>>
  /\ LET r == Head(cs.outstanding)
         response == transliterateRealTime(RulesOf(engine), isEnabled,
                                           r.text, r.cursor)
     IN  IF cs.value # response.text
         THEN cs' = [cs EXCEPT
                       !.outstanding = Tail(@),
                       !.value = response.text,
                       !.selectionStart = Min(response.newCursorPosition,
                                              Len(response.text)),
                       !.writeSent = r.text,
                       !.writeOver = cs.value]
         ELSE cs' = [cs EXCEPT !.outstanding = Tail(@)]
  /\ CsFrame

\* callback of processElement: updateElementText is entered if the response
\* differs from the text that was sent
fullTextResponse ==
  /\ cs.script = "fulltext"
  /\ cs.pc = "idle"
  /\ cs.outstanding # <<>>
  /\ LET r == Head(cs.outstanding)
         transliteratedText == transliterate(RulesOf(engine), r.text)
     IN  IF transliteratedText # <<>> /\ transliteratedText # r.text
            /\ ~cs.isUpdatingInput
         THEN cs' = [cs EXCEPT
                       !.outstanding = Tail(@),
                       !.isUpdatingInput = TRUE,
                       !.pc = "writing",
                       !.pendingText = transliteratedText,
                       !.pendingSent = r.text]
         ELSE cs' = [cs EXCEPT !.outstanding = Tail(@)]
  /\ CsFrame

\* the try block of updateElementText without a finally: an exception leaves
\* the function at once
writeValue_NoFinally ==
  /\ cs.pc = "writing"
  /\ \/ cs' = [cs EXCEPT
                 !.value = cs.pendingText,
                 !.selectionStart =
                    Min(IF @ = 0 THEN Len(cs.pendingText) ELSE @,
                        Len(cs.pendingText)),
                 !.writeSent = cs.pendingSent,
                 !.writeOver = cs.value,
                 !.pc = "dispatching"]
     \/ cs' = [cs EXCEPT !.pc = "idle", !.threw = TRUE]
  /\ CsFrame

\* updateElementText, the try block up to the events: the value and the
\* selection are set, or the DOM throws and control goes to finally
writeValue ==
  /\ cs.pc = "writing"
  /\ \/ cs' = [cs EXCEPT
                 !.value = cs.pendingText,
                 !.selectionStart =
                    Min(IF @ = 0 THEN Len(cs.pendingText) ELSE @,
                        Len(cs.pendingText)),
                 !.writeSent = cs.pendingSent,
                 !.writeOver = cs.value,
                 !.pc = "dispatching"]
     \/ cs' = [cs EXCEPT !.pc = "finally", !.threw = TRUE]
  /\ CsFrame

\* updateElementText dispatches input and change: the input listener runs at
\* once, inside the update
dispatchEvents ==
  /\ cs.pc = "dispatching"
  /\ cs' = [cs EXCEPT
              !.outstanding = RequestsAfterInput(cs, cs.value,
                                                 cs.selectionStart),
              !.pc = "finally"]
  /\ CsFrame

\* finally { isUpdatingInput = false; }
finallyReset ==
  /\ cs.pc = "finally"
  /\ cs' = [cs EXCEPT !.isUpdatingInput = FALSE, !.pc = "idle"]
  /\ CsFrame

CsNext ==
  \/ \E ch \in TypedChars : userTypes(ch)
  \/ \E enabled \in BOOLEAN : onToggle(enabled)
  \/ realTimeResponse
  \/ fullTextResponse
  \/ writeValue
  \/ dispatchEvents
  \/ finallyReset

ContentSpec == CsInit /\ [][CsNext]_vars

---------------------------------------------------------------------------
(* State machine of debounce(func, delay).  Time is counted in ticks; a     *)
(* timer runs its callback at the tick it is due, before anything else      *)
(* happens at that tick.  The id of the timer that a call sets is the       *)
(* number of the call.  calls and runs are the history of the calls of the  *)
(* debounced function and of the runs of func.                              *)

\* the delay of debounce, in ticks
Delay == 2

DebounceArgs == {"s", "sh"}

DbInit ==
  /\ EngineAtRest
  /\ bg = BgAtRest
  /\ cs = CsAtRest
  /\ db = DbAtRest

DbFrame ==
  UNCHANGED <<engine, isEnabled, keyboardLayout, currentText, cursorPosition,
              op, arg, ret, results, bg, cs>>

TimerDue == \E t \in db.timers : t.due <= db.now

\* setTimeout(() => func.apply(context, args), delay)
setTimeout(timers, id, args) ==
  timers \cup {[id |-> id, args |-> args, due |-> db.now + Delay]}

\* clearTimeout(timeout)
clearTimeout(timers, id) == {t \in timers : t.id # id}

\* the debounced function without clearTimeout: the earlier timer stays set
debounced_NoClear(args) ==
  /\ ~TimerDue
  /\ Len(db.calls) < MaxCalls
  /\ LET id == Len(db.calls) + 1
     IN  db' = [db EXCEPT
                  !.timers = setTimeout(@, id, args),
                  !.timeout = id,
                  !.calls = Append(@, [args |-> args, at |-> db.now])]
  /\ DbFrame

\* the function that debounce returns
debounced(args) ==
  /\ ~TimerDue
  /\ Len(db.calls) < MaxCalls
  /\ LET id == Len(db.calls) + 1
     IN  db' = [db EXCEPT
                  !.timers = setTimeout(clearTimeout(@, db.timeout), id, args),
                  !.timeout = id,
                  !.calls = Append(@, [args |-> args, at |-> db.now])]
  /\ DbFrame

\* a timer is due: func.apply(context, args)
timerFires ==
  /\ \E t \in db.timers :
       /\ t.due <= db.now
       /\ db' = [db EXCEPT
                   !.timers = @ \ {t},
                   !.runs = Append(@, [args |-> t.args, at |-> db.now])]
  /\ DbFrame

\* time passes
tick ==
  /\ ~TimerDue
  /\ db.now < MaxTime
  /\ db' = [db EXCEPT !.now = @ + 1]
  /\ DbFrame

DbNext ==
  \/ \E args \in DebounceArgs : debounced(args)
  \/ timerFires
  \/ tick

DebounceSpec == DbInit /\ [][DbNext]_vars

---------------------------------------------------------------------------
(* Vocabulary of the properties *)

RealTimeCall == op = "transliterateRealTime"

TransliterateCall == op = "transliterate"

rules == RulesOf(engine)

\* the digraphs and their letters, as the rule table documents them
DigraphLetters ==
  { <<"s", "h", "SHEEN">>, <<"t", "h", "THAA">>,
    <<"d", "h", "DHAAL">>, <<"c", "h", "SHEEN">> }

\* the two characters at 1-based positions i, i+1 of text spell the digraph d
\* in some letter case
SpellsDigraph(text, i, d) ==
  /\ i >= 1 /\ i + 1 <= Len(text)
  /\ Canonicalize(text[i]) = d[1]
  /\ Canonicalize(text[i + 1]) = d[2]

\* the cursor sits between the two letters of a digraph
CursorSplitsDigraph(text, cursor) ==
  \E d \in DigraphLetters : SpellsDigraph(text, cursor, d)

\* the text before 1-based position i, and the text after position j
Before(text, i) == SubSeq(text, 1, i - 1)

After(text, j) == SubSeq(text, j + 1, Len(text))

\* position i of text holds a letter that no h or H follows
NotBeforeH(text, i) == i = Len(text) \/ text[i + 1] \notin {"h", "H"}

EmphaticLetters == { <<"S", "SAD">>, <<"D", "DAD">>, <<"Z", "ZHA">> }

PlainLetters == { <<"s", "SEEN">>, <<"d", "DAL">>, <<"z", "ZAY">> }

Text3arabiyya == <<"3","a","r","a","b","i","y","y","a">>

TextSham == <<"S","h","a","m">>

\* some rule of the table matches somewhere in text
SomeRuleMatches(table, text) ==
  \E k \in 1..Len(table) : \E i \in 1..Len(text) : MatchesAt(text, i, table[k])

\* the image of one character: the letter of the first one-character rule
\* of the table that matches it, or the character itself
MapChar(table, c) ==
  LET hits == { k \in 1..Len(table) :
                  /\ Len(table[k].pattern) = 1
                  /\ CharMatches(table[k].pattern[1], c, table[k].flags) }
  IN  IF hits = {} THEN c
      ELSE table[CHOOSE k \in hits : \A m \in hits : k <= m].arabic

\* the two-character rules of the table that match text at position i
DigraphHits(table, text, i) ==
  { k \in 1..Len(table) :
      Len(table[k].pattern) = 2 /\ MatchesAt(text, i, table[k]) }

RECURSIVE Scanner(_, _, _)
\* one scan from left to right, from position i: two characters are consumed
\* where they form a digraph, one character is mapped otherwise
Scanner(table, text, i) ==
  IF i > Len(text) THEN <<>>
  ELSE IF DigraphHits(table, text, i) # {}
       THEN <<table[CHOOSE k \in DigraphHits(table, text, i) : TRUE].arabic>>
              \o Scanner(table, text, i + 2)
       ELSE <<MapChar(table, text[i])>> \o Scanner(table, text, i + 1)

\* the table with its two-character rules in the opposite order
RECURSIVE Reverse(_)
Reverse(seq) ==
  IF seq = <<>> THEN <<>> ELSE Reverse(Tail(seq)) \o <<Head(seq)>>

DigraphsReversed(table) ==
  Reverse(SelectSeq(table, LAMBDA r : Len(r.pattern) = 2))
    \o SelectSeq(table, LAMBDA r : Len(r.pattern) = 1)

\* the characters that occur in no rule pattern: the digits 0, 1, 4, the
\* letters g, q, v, x, the separators and the Arabic letters
PassThroughChars ==
  { "0", "1", "4", "g", "q", "v", "x", "G", "Q", "V", "X" }
    \cup separators \cup { "SHEEN", "ALIF", "MEEM", "RA", "HHA", "BA" }

---------------------------------------------------------------------------
(* Properties *)

\* C1: with the engine enabled and the cursor in [0, len], the text returned
\* by transliterateRealTime equals transliterate of the whole text, wherever
\* the cursor is.
C1_RealTimeTextIsFullTransliteration ==
  (RealTimeCall /\ isEnabled /\ InRange(currentText, cursorPosition))
    => ret.text = transliterate(rules, currentText)

\* a real-time call whose three segments are all non-empty and whose text
\* was changed by the rules
C1_Witness ==
  /\ RealTimeCall /\ isEnabled /\ InRange(currentText, cursorPosition)
  /\ committedPrefix(currentText, cursorPosition) # <<>>
  /\ activeSegment(currentText, cursorPosition) # <<>>
  /\ suffix(currentText, cursorPosition) # <<>>
  /\ ret.text # currentText

\* C2 as stated: with the engine enabled and the cursor in [0, len], the
\* first newCursorPosition characters of the returned text are the
\* transliteration of the text up to the cursor, also between s and h.
C2_PrefixUpToNewCursor_Original ==
  (RealTimeCall /\ isEnabled /\ InRange(currentText, cursorPosition))
    => /\ ret.newCursorPosition <= Len(ret.text)
       /\ SubSeq(ret.text, 1, ret.newCursorPosition)
            = transliterate(rules, Substring(currentText, 0, cursorPosition))

\* C2 as amended: the same, for every cursor that does not sit between the
\* two letters of a digraph sh, th, dh, ch (in any letter case).
C2_PrefixUpToNewCursor ==
  (/\ RealTimeCall /\ isEnabled /\ InRange(currentText, cursorPosition)
   /\ ~CursorSplitsDigraph(currentText, cursorPosition))
    => /\ ret.newCursorPosition <= Len(ret.text)
       /\ SubSeq(ret.text, 1, ret.newCursorPosition)
            = transliterate(rules, Substring(currentText, 0, cursorPosition))

\* a cursor right after a digraph, strictly inside the text: the mapped
\* cursor has moved left
C2_Witness ==
  /\ RealTimeCall /\ isEnabled /\ InRange(currentText, cursorPosition)
  /\ ~CursorSplitsDigraph(currentText, cursorPosition)
  /\ CursorSplitsDigraph(currentText, cursorPosition - 1)
  /\ cursorPosition < Len(currentText)
  /\ ret.newCursorPosition < cursorPosition

\* C3: with the engine enabled and the cursor in [0, len], the returned
\* newCursorPosition lies in [0, len(returned text)].
C3_NewCursorInRange ==
  (RealTimeCall /\ isEnabled /\ InRange(currentText, cursorPosition))
    => ret.newCursorPosition \in 0..Len(ret.text)

\* the cursor sits between the letters of a digraph that ends the text: the
\* mapped cursor is at the very end of the shorter returned text
C3_Witness ==
  /\ RealTimeCall /\ isEnabled
  /\ CursorSplitsDigraph(currentText, cursorPosition)
  /\ cursorPosition + 1 = Len(currentText)
  /\ ret.newCursorPosition = Len(ret.text)
  /\ Len(ret.text) < Len(currentText)

\* C4: with the engine disabled, transliterateRealTime(t, c) returns exactly
\* { text: t, newCursorPosition: c }, whatever t and the integer c are.
C4_DisabledIdentity ==
  (RealTimeCall /\ ~isEnabled)
    => ret = [text |-> currentText, newCursorPosition |-> cursorPosition]

\* a disabled call on a text the rules would change, with an out-of-range
\* cursor
C4_Witness ==
  /\ RealTimeCall /\ ~isEnabled
  /\ ~InRange(currentText, cursorPosition)
  /\ transliterate(rules, currentText) # currentText
  /\ ret.text = currentText /\ ret.newCursorPosition = cursorPosition

\* C5: with the engine enabled, a cursor below 0 gives the result of cursor
\* 0, and a cursor above len(text) gives the result of cursor len(text).
C5_OutOfRangeCursorClamped ==
  /\ (RealTimeCall /\ isEnabled /\ cursorPosition < 0)
       => ret = transliterateRealTime(rules, TRUE, currentText, 0)
  /\ (RealTimeCall /\ isEnabled /\ cursorPosition > Len(currentText))
       => ret = transliterateRealTime(rules, TRUE, currentText,
                                      Len(currentText))

\* an enabled call with a negative cursor on a text that starts with a
\* digraph and holds a separator
C5_Witness ==
  /\ RealTimeCall /\ isEnabled /\ cursorPosition < 0
  /\ CursorSplitsDigraph(currentText, 1)
  /\ \E i \in 1..Len(currentText) : currentText[i] \in separators
  /\ ret.newCursorPosition = 0

\* C6: every occurrence of sh, th, dh, ch, in any letter case, is replaced by
\* the one letter of the digraph and never by the letters of its two
\* characters; the text before and the text after are transliterated as if
\* they stood alone.
C6_DigraphPrecedence ==
  TransliterateCall =>
    \A d \in DigraphLetters : \A i \in 1..Len(currentText) :
      SpellsDigraph(currentText, i, d)
        => ret = transliterate(rules, Before(currentText, i)) \o <<d[3]>>
                   \o transliterate(rules, After(currentText, i + 1))

\* transliterate("SH") has returned the one letter sheen
C6_Witness ==
  /\ TransliterateCall
  /\ currentText = <<"S", "H">>
  /\ ret = <<"SHEEN">>

\* C7 as stated: for "Sham" the leading S becomes sad by the emphatic rule
\* and h, a, m are mapped one by one.
C7_Sham_Original ==
  (TransliterateCall /\ currentText = TextSham)
    => ret = <<"SAD", "HA", "ALIF", "MEEM">>

\* C7 as amended: for "Sham" the digraph rule consumes the pair S+h and gives
\* sheen; only a and m are mapped by the single-letter rules.
C7_Sham ==
  (TransliterateCall /\ currentText = TextSham)
    => ret = <<"SHEEN", "ALIF", "MEEM">>

C7_Witness ==
  /\ TransliterateCall
  /\ currentText = TextSham
  /\ Len(ret) = 3

\* C8: an uppercase S, D, Z that no h or H follows becomes sad, dad, zha; a
\* lowercase s, d, z in the same position becomes seen, dal, zay.
C8_EmphaticCaseSensitive ==
  TransliterateCall =>
    \A i \in 1..Len(currentText) :
      NotBeforeH(currentText, i) =>
        \A m \in EmphaticLetters \cup PlainLetters :
          currentText[i] = m[1]
            => ret = transliterate(rules, Before(currentText, i)) \o <<m[2]>>
                       \o transliterate(rules, After(currentText, i))

\* transliterate("S") has returned sad
C8_Witness ==
  /\ TransliterateCall
  /\ currentText = <<"S">>
  /\ ret = <<"SAD">>

\* C9: the rule table of the engine maps T to ta and t (no h after it) to ta
\* marbuta, O to waw with hamza, Y to ya with hamza, o to waw and y to ya.
C9_VariantLetters ==
  TransliterateCall =>
    /\ currentText = <<"T">> => ret = <<"TA">>
    /\ currentText = <<"t">> => ret = <<"TA_MARBUTA">>
    /\ currentText = <<"O">> => ret = <<"WAW_HAMZA">>
    /\ currentText = <<"Y">> => ret = <<"YA_HAMZA">>
    /\ currentText = <<"o">> => ret = <<"WAW">>
    /\ currentText = <<"y">> => ret = <<"YA">>

C12_Idempotent ==
  TransliterateCall =>
    /\ ~SomeRuleMatches(rules, ret)
    /\ transliterate(rules, ret) = ret
    /\ (IsString(currentText) /\ ~SomeRuleMatches(rules, currentText))
         => ret = currentText

\* the output differs from the input, and still holds a Latin letter
C12_Witness ==
  /\ TransliterateCall
  /\ ret # currentText
  /\ \E i \in 1..Len(ret) : ret[i] \in {"c", "g", "q", "x"}
  /\ \E i \in 1..Len(ret) : ret[i] \in {"HA", "SHEEN", "ALIF"}


\* C13: with the engine enabled and the cursor in [0, len], feeding the text
\* and the cursor that transliterateRealTime returned back into
\* transliterateRealTime returns the same text and the same cursor.
C13_RealTimeIdempotent ==
  (RealTimeCall /\ isEnabled /\ InRange(currentText, cursorPosition))
    => transliterateRealTime(rules, TRUE, ret.text, ret.newCursorPosition) = ret

\* the call has changed the text and moved the cursor, which sits strictly
\* inside the returned text
C13_Witness ==
  /\ RealTimeCall /\ isEnabled /\ InRange(currentText, cursorPosition)
  /\ ret.text # currentText
  /\ ret.newCursorPosition < cursorPosition
  /\ ret.newCursorPosition > 0
  /\ ret.newCursorPosition < Len(ret.text)

\* C14 as stated: transliterate hands a falsy input back as it is: the empty
\* string for the empty string, null for null, undefined for undefined.
C14_FalsyInput_Original ==
  (TransliterateCall /\ Falsy(currentText)) => ret = currentText

\* C14 as amended: transliterate returns the empty string for every falsy
\* input: for the empty string, and also for null and for undefined.
C14_FalsyInput ==
  (TransliterateCall /\ Falsy(currentText)) => ret = <<>>

\* transliterate(null) has returned the empty string
C14_Witness ==
  /\ TransliterateCall
  /\ currentText = Null
  /\ ret = <<>>


\* C15: the enabled flag has no influence on transliterate: all the calls of
\* transliterate on a text, whatever setEnabled calls came before each of
\* them, have returned the same value.
C15_FlagHasNoInfluence ==
  \A p \in results : \A q \in results : p.output = q.output

\* transliterate has been called with the flag true and with the flag false,
\* on a text that the rules change
C15_Witness ==
  /\ IsString(currentText)
  /\ \E p \in results : \E q \in results :
       p.flag /\ ~q.flag /\ p.output # currentText


\* C16 as stated: the enabled flag is the only mutable state of the engine
\* and changes only through setEnabled: a fresh engine is enabled, the query
\* returns the flag, setEnabled(b) sets the flag to b, and no other call
\* changes the flag, the rule table or any other field.
C16_OnlyMutableState_Original ==
  /\ [](op = "constructor" => isEnabled = TRUE)
  /\ [](op = "isTransliteratorEnabled" => ret = isEnabled)
  /\ [][ /\ op' = "setEnabled" => isEnabled' = arg'
         /\ op' # "setEnabled" => isEnabled' = isEnabled
         /\ engine' = engine
         /\ keyboardLayout' = keyboardLayout ]_vars

\* C16 as amended: the engine has two mutable fields, the enabled flag and
\* keyboardLayout.  The flag changes only through setEnabled: a fresh engine
\* is enabled, the query returns the flag, setEnabled(b) sets the flag to b,
\* and no other call changes the flag or the rule table; keyboardLayout
\* changes only through setKeyboardLayout.
C16_OnlyMutableState ==
  /\ [](op = "constructor" => isEnabled = TRUE)
  /\ [](op = "isTransliteratorEnabled" => ret = isEnabled)
  /\ [][ /\ op' = "setEnabled" => isEnabled' = arg'
         /\ op' # "setEnabled" => isEnabled' = isEnabled
         /\ engine' = engine
         /\ op' # "setKeyboardLayout" => keyboardLayout' = keyboardLayout
       ]_vars

\* the query has returned false after transliterate was called, with a
\* changed text as its result, on the disabled engine
C16_Witness ==
  /\ op = "isTransliteratorEnabled"
  /\ ret = FALSE
  /\ \E q \in results : ~q.flag /\ q.output # currentText


\* C17: while the engine is disabled, a host request for the full-text
\* transliteration of a text does not return rule-transformed text: the text
\* comes back as it was sent.
C17_HostGatesTransliterate ==
  (TransliterateCall /\ ~isEnabled /\ IsString(currentText))
    => ret = currentText


\* C18: the documented examples hold for transliterate: "marHaba" gives meem,
\* ra, hha, ba, alif; "sha7al" gives sheen, hha, alif, lam; "3arabiyya" gives
\* ain, ra, ba, ya, ta marbuta; "ahlan" gives alif with hamza, ha, lam, alif,
\* noon.
C18_DocumentedExamples ==
  TransliterateCall =>
    /\ currentText = <<"m","a","r","H","a","b","a">>
         => ret = <<"MEEM", "RA", "HHA", "BA", "ALIF">>
    /\ currentText = <<"s","h","a","7","a","l">>
         => ret = <<"SHEEN", "HHA", "ALIF", "LAM">>
    /\ currentText = Text3arabiyya
         => ret = <<"AIN", "RA", "BA", "YA", "TA_MARBUTA">>
    /\ currentText = <<"a","h","l","a","n">>
         => ret = <<"ALIF_HAMZA", "HA", "LAM", "ALIF", "NOON">>

\* C19: the transliteration guide of the README holds for transliterate: kh
\* gives kha, gh gives ghain, q gives qaf, H gives hha and T gives tah.
C19_ReadmeGuide ==
  TransliterateCall =>
    /\ currentText = <<"k", "h">> => ret = <<"KHA">>
    /\ currentText = <<"g", "h">> => ret = <<"GHAIN">>
    /\ currentText = <<"q">> => ret = <<"QAF">>
    /\ currentText = <<"H">> => ret = <<"HHA">>
    /\ currentText = <<"T">> => ret = <<"TAH">>


\* C20: with the engine enabled and the cursor in [0, len], leftBoundary is
\* the greatest index below the cursor that holds a separator, or -1 if there
\* is none, and rightBoundary is the least index from the cursor on that
\* holds a separator, or len if there is none; so leftBoundary < cursor <=
\* rightBoundary.  Indices are 0-based.
C20_BoundaryDetection ==
  (RealTimeCall /\ isEnabled /\ InRange(currentText, cursorPosition))
    => LET lb == leftBoundary(currentText, cursorPosition)
           rb == rightBoundary(currentText, cursorPosition)
           IsSeparator(i) == currentText[i + 1] \in separators
       IN  /\ lb \in -1 .. (cursorPosition - 1)
           /\ lb >= 0 => IsSeparator(lb)
           /\ \A i \in (lb + 1) .. (cursorPosition - 1) : ~IsSeparator(i)
           /\ rb \in cursorPosition .. Len(currentText)
           /\ rb < Len(currentText) => IsSeparator(rb)
           /\ \A i \in cursorPosition .. (rb - 1) : ~IsSeparator(i)
           /\ lb < cursorPosition /\ cursorPosition <= rb

\* the cursor sits strictly inside a word that has a separator on its left
\* and a separator on its right
C20_Witness ==
  /\ RealTimeCall /\ isEnabled /\ InRange(currentText, cursorPosition)
  /\ leftBoundary(currentText, cursorPosition) >= 0
  /\ leftBoundary(currentText, cursorPosition) + 1 < cursorPosition
  /\ cursorPosition < rightBoundary(currentText, cursorPosition)
  /\ rightBoundary(currentText, cursorPosition) < Len(currentText)


\* C21: with the engine enabled and the cursor in [0, len], the three
\* segments are a partition of the text around the cursor: committedPrefix
\* + activeSegment + suffix is currentText, committedPrefix is empty or ends
\* with a separator, activeSegment holds no separator and spans the cursor,
\* and suffix is empty or starts with a separator.
C21_SegmentationIsPartition ==
  (RealTimeCall /\ isEnabled /\ InRange(currentText, cursorPosition))
    => LET p == committedPrefix(currentText, cursorPosition)
           a == activeSegment(currentText, cursorPosition)
           x == suffix(currentText, cursorPosition)
       IN  /\ p \o a \o x = currentText
           /\ p = <<>> \/ p[Len(p)] \in separators
           /\ \A i \in 1..Len(a) : a[i] \notin separators
           /\ Len(p) <= cursorPosition /\ cursorPosition <= Len(p) + Len(a)
           /\ x = <<>> \/ x[1] \in separators

\* the three segments are all non-empty and the cursor is strictly inside
\* the active segment
C21_Witness ==
  /\ RealTimeCall /\ isEnabled /\ InRange(currentText, cursorPosition)
  /\ Len(committedPrefix(currentText, cursorPosition)) < cursorPosition
  /\ committedPrefix(currentText, cursorPosition) # <<>>
  /\ suffix(currentText, cursorPosition) # <<>>
  /\ cursorPosition < Len(committedPrefix(currentText, cursorPosition))
                        + Len(activeSegment(currentText, cursorPosition))


\* C22: the result of transliterate is the result of one scan from left to
\* right that consumes two characters where they form sh, th, dh or ch in any
\* letter case and maps one character by its first single-character rule
\* otherwise; the order of the digraph rules among themselves does not
\* matter.
C22_SinglePassEquivalent ==
  (TransliterateCall /\ IsString(currentText))
    => /\ ret = Scanner(rules, currentText, 1)
       /\ ret = transliterate(DigraphsReversed(rules), currentText)

\* the scan has consumed a digraph after an emphatic capital and before
\* another letter
C22_Witness ==
  /\ TransliterateCall
  /\ currentText = <<"T", "h", "a", "b", "t">>
  /\ ret[1] = "THAA"
  /\ Len(ret) = 4


\* the cursor that transliterateRealTime returns for cursor c on the text of
\* the state, with the engine enabled
MappedCursor(c) ==
  transliterateRealTime(rules, TRUE, currentText, c).newCursorPosition

\* C23: with the engine enabled, for a fixed text and cursors 0 <= c1 <= c2
\* <= len, the mapped cursors satisfy 0 <= new(c2) - new(c1) <= c2 - c1: the
\* mapping is monotone and never stretches, and new(c) <= c.
C23_CursorMappingMonotone ==
  (RealTimeCall /\ isEnabled /\ InRange(currentText, cursorPosition))
    => /\ ret.newCursorPosition <= cursorPosition
       /\ \A c1 \in 0..cursorPosition :
            /\ 0 <= ret.newCursorPosition - MappedCursor(c1)
            /\ ret.newCursorPosition - MappedCursor(c1) <= cursorPosition - c1

\* two different cursors, between and after the letters of a digraph, are
\* mapped to the same position, which is not 0
C23_Witness ==
  /\ RealTimeCall /\ isEnabled /\ InRange(currentText, cursorPosition)
  /\ ret.newCursorPosition > 0
  /\ CursorSplitsDigraph(currentText, cursorPosition - 1)
  /\ MappedCursor(cursorPosition - 1) = ret.newCursorPosition


\* the text holds no lowercase t, no uppercase O and no uppercase Y
FreeOfVariantLetters(text) ==
  \A i \in 1..Len(text) : text[i] \notin {"t", "O", "Y"}

InitResumes ==
  /\ bg.storageOps # <<>>
  /\ Head(bg.storageOps).kind = "get"
  /\ bg'.storageOps = Tail(bg.storageOps)

\* nothing is pending in the background script
BgQuiescent == bg.storageOps = <<>> /\ bg.queries = <<>>

\* C25: every toggle event flips the engine's flag exactly once and sets the
\* badge to the new value in the same step; no later step of a toggle
\* handler touches the flag or the badge; once a toggle was handled the badge
\* is ON exactly when the flag is true.
C25_ToggleFlipsOnce ==
  /\ [][ bg'.toggles = bg.toggles + 1
           => /\ isEnabled' = ~isEnabled
              /\ bg'.badge = (IF isEnabled' THEN "ON" ELSE "OFF") ]_vars
  /\ [][ (bg'.toggles = bg.toggles /\ ~InitResumes)
           => /\ isEnabled' = isEnabled
              /\ bg'.badge = bg.badge ]_vars
  /\ [](bg.toggles > 0 => (bg.badge = "ON" <=> isEnabled))

\* two toggle handlers are interleaved: the message handler and the icon
\* handler both wait for their storage write, and the flag is back at its
\* value before the two
C25_Witness ==
  /\ bg.toggles = 2
  /\ Len(bg.storageOps) = 2
  /\ bg.storageOps[1].from = "message"
  /\ bg.storageOps[2].from = "icon"
  /\ isEnabled /\ bg.badge = "ON"


\* the flag that a restart of the background script would load
StoredFlag == IF bg.stored = <<>> THEN TRUE ELSE bg.stored[1]

\* C26: once initializeTransliteratorState has finished and every storage
\* write has completed, the stored flag equals the engine's flag, also when
\* a toggle was handled while the read of the initialization was pending.
C26_StoredAgreesAtRest ==
  bg.storageOps = <<>> => StoredFlag = isEnabled

C27_NoStaleResponseApplied == cs.writeSent = cs.writeOver

\* C28: isUpdatingInput is true exactly while updateElementText is running,
\* also after the update has thrown; the events that updateElementText
\* dispatches send no request; a keystroke of the user outside an update, on
\* an enabled script, does send one.
C28_UpdateGuard ==
  /\ [](cs.isUpdatingInput <=> cs.pc # "idle")
  /\ [][ cs.pc = "dispatching" => cs'.outstanding = cs.outstanding ]_vars
  /\ [][ (cs'.typed = cs.typed + 1 /\ cs.isTransliteratorEnabled)
           => Len(cs'.outstanding) = Len(cs.outstanding) + 1 ]_vars

\* an update has thrown, and a keystroke after it has led to a request
C28_Witness ==
  /\ cs.script = "fulltext"
  /\ cs.threw
  /\ cs.pc = "idle"
  /\ ~cs.isUpdatingInput
  /\ cs.outstanding # <<>>
  /\ Head(cs.outstanding).text # cs.pendingSent


\* call i is the last call of its burst: no call follows it within the delay
LastOfBurst(i) ==
  \/ i = Len(db.calls)
  \/ db.calls[i + 1].at >= db.calls[i].at + Delay

RECURSIVE RunsFrom(_, _)
\* the runs that the bursts call for up to time t, from call i on: one run
\* per burst, Delay after its last call, with the arguments of that call
RunsFrom(i, t) ==
  IF i > Len(db.calls) THEN <<>>
  ELSE IF LastOfBurst(i) /\ db.calls[i].at + Delay <= t
       THEN <<[args |-> db.calls[i].args, at |-> db.calls[i].at + Delay]>>
            \o RunsFrom(i + 1, t)
       ELSE RunsFrom(i + 1, t)

IsPrefix(s, t) == Len(s) <= Len(t) /\ SubSeq(t, 1, Len(s)) = s

=============================================================================
